---------------------------- MODULE Spec2Model ----------------------------
(***************************************************************************)
(* Model of dev-server.py: a socketserver.TCPServer on a fixed port whose  *)
(* request handler, NoCacheHTTPRequestHandler, extends                     *)
(* http.server.SimpleHTTPRequestHandler with an end_headers that adds      *)
(* three no-cache headers and a log_message that writes to sys.stderr.     *)
(*                                                                         *)
(* The handler is modelled as a record threaded through operators that     *)
(* carry the names of the methods they model.  The methods the subclass    *)
(* inherits (parse_request, send_error, send_head, ...) are modelled as    *)
(* CPython 3.11 implements them, because the two overrides are only ever   *)
(* reached through them.                                                   *)
(***************************************************************************)
EXTENDS Integers, Sequences, FiniteSets, TLC

\* ------------------------------------------------------------------ bounds
\* Connections one process accepts before the model stops offering more.
MaxRequests == 2

\* --------------------------------------------------------------- constants
PORT == 8080

\* The processes started: a first instance and a second one on the same port.
Instances == {1, 2}

\* ------------------------------------------------------- the served directory
\* The working directory the handler serves: two readable files, one file the
\* process may not read, a directory with an index.html and one without.
FileBytes ==
    [p \in {"/a.html", "/dir/index.html", "/secret"} |->
        CASE p = "/a.html" -> <<65, 66>>
          [] p = "/dir/index.html" -> <<67>>
          [] OTHER -> <<88, 89, 90>>]

Readable == {"/a.html", "/dir/index.html"}

Directories == {"/dir", "/dir/", "/empty/"}

\* Request targets a client may name.
Paths == {"/a.html", "/a.html?v=2", "/a.html/", "/secret",
          "/dir", "/dir/", "/empty/", "/nope.png"}

Commands == {"GET", "HEAD", "POST"}

Versions == {"HTTP/0.9", "HTTP/1.0", "HTTP/1.1", "HTTP/2.0", "HTTP/x"}

\* What a connection delivers: the request line as split() sees it (or no
\* line at all, or one longer than 65536 bytes), whether the header block
\* parses, and the If-Modified-Since header compared to the file's mtime.
RequestLines ==
    {<<>>, <<"GET">>}
    \cup {<<c, p>> : c \in {"GET", "HEAD"}, p \in Paths}
    \cup {<<c, p, v>> : c \in Commands, p \in Paths, v \in Versions}
    \cup {<<"GET", "/a", "b", v>> : v \in {"HTTP/1.1", "HTTP/x"}}

Requests ==
    {[raw |-> "eof", words |-> <<>>, hdr |-> "ok", ims |-> "none"],
     [raw |-> "toolong", words |-> <<>>, hdr |-> "ok", ims |-> "none"]}
    \cup {[raw |-> "line", words |-> w, hdr |-> "ok", ims |-> "none"] :
             w \in RequestLines}
    \cup {[raw |-> "line", words |-> w, hdr |-> "bad", ims |-> "none"] :
             w \in {x \in RequestLines : Len(x) \in {2, 3} /\ x[2] = "/a.html"}}
    \cup {[raw |-> "line", words |-> w, hdr |-> "ok", ims |-> i] :
             w \in {x \in RequestLines : Len(x) \in {2, 3}
                                        /\ x[2] \in {"/a.html", "/dir/", "/nope.png"}},
             i \in {"notmodified", "modified"}}

\* ----------------------------------------------------------- wire and log
StatusItem(proto, code) == [t |-> "status", k |-> proto, v |-> ToString(code)]
HeaderItem(keyword, value) == [t |-> "header", k |-> keyword, v |-> value]
EndItem == [t |-> "end", k |-> "", v |-> ""]
BodyItem == [t |-> "body", k |-> "", v |-> ""]

\* class attribute BaseHTTPRequestHandler.protocol_version, not overridden
protocol_version == "HTTP/1.0"
default_request_version == "HTTP/0.9"

\* StreamRequestHandler.setup: a fresh handler object per connection
NewHandler ==
    [request_version |-> "", command |-> "", requestline |-> <<>>,
     path |-> "", close_connection |-> TRUE,
     headers_buffer |-> <<>>, wfile |-> <<>>, body |-> <<>>,
     stderr |-> <<>>, ok |-> FALSE]

\* ----------------------------------- NoCacheHTTPRequestHandler.log_message
address_string == "127.0.0.1"
log_date_time_string == "01/Nov/2026 11:22:04"

\* "%s - - [%s] %s\n" % (address, date, format % args), as tokens
log_message_one_dash(h, message) ==
    [h EXCEPT !.stderr =
        Append(@, <<address_string, "-", "[", log_date_time_string, "]">>
                  \o message)]

log_message(h, message) ==
    [h EXCEPT !.stderr =
        Append(@, <<address_string, "-", "-", "[", log_date_time_string, "]">>
                  \o message)]

\* log_request: '"%s" %s %s' % (requestline, code, '-')
log_request(h, code) ==
    log_message(h, <<"\"">> \o h.requestline \o <<"\"", ToString(code), "-">>)

\* log_error("code %d, message %s", code, message)
log_error(h, code, message) ==
    log_message(h, <<"code", ToString(code), "message", message>>)

\* --------------------------------------------------- header buffer methods
send_response_only(h, code) ==
    IF h.request_version # "HTTP/0.9"
    THEN [h EXCEPT !.headers_buffer = Append(@, StatusItem(protocol_version, code))]
    ELSE h

send_header(h, keyword, value) ==
    LET h1 == IF h.request_version # "HTTP/0.9"
              THEN [h EXCEPT !.headers_buffer = Append(@, HeaderItem(keyword, value))]
              ELSE h
    IN  IF keyword = "Connection"
        THEN [h1 EXCEPT !.close_connection = (value = "close")]
        ELSE h1

flush_headers(h) ==
    [h EXCEPT !.wfile = @ \o h.headers_buffer, !.headers_buffer = <<>>]

\* BaseHTTPRequestHandler.end_headers, reached through super().end_headers()
super_end_headers(h) ==
    IF h.request_version # "HTTP/0.9"
    THEN flush_headers([h EXCEPT !.headers_buffer = Append(@, EndItem)])
    ELSE h

CacheControlValue == "no-store, no-cache, must-revalidate, max-age=0"

\* ----------------------------------- NoCacheHTTPRequestHandler.end_headers
end_headers_no_expires(h) ==
    super_end_headers(send_header(send_header(h,
        "Cache-Control", CacheControlValue), "Pragma", "no-cache"))

end_headers_pragma_first(h) ==
    super_end_headers(send_header(send_header(send_header(h,
        "Pragma", "no-cache"), "Cache-Control", CacheControlValue), "Expires", "0"))

end_headers(h) ==
    super_end_headers(
        send_header(
            send_header(
                send_header(h, "Cache-Control", CacheControlValue),
                "Pragma", "no-cache"),
            "Expires", "0"))

send_response(h, code) ==
    send_header(
        send_header(send_response_only(log_request(h, code), code),
                    "Server", "SimpleHTTP/0.6 Python/3.11"),
        "Date", "now")

write_body(h, bytes) ==
    [h EXCEPT !.wfile = Append(@, BodyItem), !.body = @ \o bytes]

\* The HTML page send_error builds for a status code.
ErrorBody(code) == <<code>>

send_error(h, code, message) ==
    LET h0 == log_error(h, code, message)
        h1 == send_header(send_response(h0, code), "Connection", "close")
        hasBody == code >= 200 /\ code \notin {204, 205, 304}
        h2 == IF hasBody
              THEN send_header(send_header(h1, "Content-Type", "text/html;charset=utf-8"),
                               "Content-Length", "n")
              ELSE h1
        h3 == end_headers(h2)
    IN  IF h.command # "HEAD" /\ hasBody THEN write_body(h3, ErrorBody(code)) ELSE h3


\* ------------------------------------------------------------ parse_request
\* version.startswith('HTTP/') and the int() of its two dotted parts
ValidVersion(version) == version \in {"HTTP/0.9", "HTTP/1.0", "HTTP/1.1", "HTTP/2.0"}

version_number(version) ==
    CASE version = "HTTP/0.9" -> <<0, 9>>
      [] version = "HTTP/1.0" -> <<1, 0>>
      [] version = "HTTP/1.1" -> <<1, 1>>
      [] OTHER -> <<2, 0>>

\* Sets ok and, on failure, has already sent the error response.
parse_request(h, req) ==
    LET words == req.words
        n == Len(words)
        h0 == [h EXCEPT !.command = "",
                        !.request_version = default_request_version,
                        !.close_connection = TRUE,
                        !.requestline = words,
                        !.ok = FALSE]
        version == IF n >= 3 THEN words[n] ELSE default_request_version
        h1 == IF n >= 3 THEN [h0 EXCEPT !.request_version = version] ELSE h0
    IN  IF n = 0 THEN h0
        ELSE IF n >= 3 /\ ~ValidVersion(version)
             THEN send_error(h0, 400, "Bad request version")
        ELSE IF n >= 3 /\ version_number(version)[1] >= 2
             THEN send_error(h0, 505, "Invalid HTTP version")
        ELSE IF ~(2 <= n /\ n <= 3)
             THEN send_error(h1, 400, "Bad request syntax")
        ELSE IF n = 2 /\ words[1] # "GET"
             THEN send_error(h1, 400, "Bad HTTP/0.9 request type")
        ELSE LET h2 == [h1 EXCEPT !.command = words[1], !.path = words[2]]
             IN  IF req.hdr # "ok"
                 THEN send_error(h2, 431, "Line too long")
                 ELSE [h2 EXCEPT !.ok = TRUE]

\* ------------------------------------------ SimpleHTTPRequestHandler.send_head
\* translate_path drops the query string and maps the URL under the cwd.
translate_path(path) == IF path = "/a.html?v=2" THEN "/a.html" ELSE path

isdir(path) == path \in Directories

endswith_slash(path) == path \in {"/a.html/", "/dir/", "/empty/"}

\* The index file send_head looks for inside a directory, "" when there is none.
IndexOf(path) == IF path = "/dir/" THEN "/dir/index.html" ELSE ""

\* open(path, 'rb') succeeds
CanOpen(path) == path \in DOMAIN FileBytes /\ path \in Readable

list_directory(h) ==
    end_headers(
        send_header(
            send_header(send_response(h, 200), "Content-type", "text/html; charset=utf-8"),
            "Content-Length", "n"))

\* The listing page list_directory builds.
ListingBody == <<0>>

\* except OSError: send_error(404, "File not found"); return None
open_failed_unhandled(h) == [h EXCEPT !.path = ""]

open_failed(h) == [send_error(h, 404, "File not found") EXCEPT !.path = ""]

\* Returns the handler with, in field path, the file object send_head hands
\* back: "" for None, "<listing>" for list_directory's BytesIO, else the path
\* of the open file.
send_head(h, req) ==
    LET path0 == translate_path(h.path)
        none(hh) == [hh EXCEPT !.path = ""]
    IN  IF isdir(path0) /\ ~endswith_slash(path0)
        THEN none(end_headers(
                 send_header(
                     send_header(send_response(h, 301), "Location", "/dir/"),
                     "Content-Length", "0")))
        ELSE IF isdir(path0) /\ IndexOf(path0) = ""
        THEN [list_directory(h) EXCEPT !.path = "<listing>"]
        ELSE LET path == IF isdir(path0) THEN IndexOf(path0) ELSE path0
             IN  IF endswith_slash(path)
                 THEN none(send_error(h, 404, "File not found"))
                 ELSE IF ~CanOpen(path)
                 THEN open_failed(h)
                 ELSE IF req.ims = "notmodified"
                 THEN none(end_headers(send_response(h, 304)))
                 ELSE [end_headers(
                          send_header(
                              send_header(
                                  send_header(send_response(h, 200),
                                              "Content-type", "text/html"),
                                  "Content-Length", "n"),
                              "Last-Modified", "mtime"))
                        EXCEPT !.path = path]

\* copyfile(f, self.wfile)
copyfile_truncated(h) ==
    IF h.path = "<listing>" THEN write_body(h, ListingBody)
    ELSE write_body(h, SubSeq(FileBytes[h.path], 1, Len(FileBytes[h.path]) - 1))

copyfile(h) ==
    IF h.path = "<listing>" THEN write_body(h, ListingBody)
    ELSE write_body(h, FileBytes[h.path])

do_GET(h, req) ==
    LET h1 == send_head(h, req)
    IN  IF h1.path # "" THEN copyfile(h1) ELSE h1

do_HEAD(h, req) == send_head(h, req)

\* ------------------------------------------------------- handle_one_request
handle_one_request(req) ==
    LET h == NewHandler
    IN  IF req.raw = "toolong"
        THEN send_error([h EXCEPT !.requestline = <<>>, !.request_version = "",
                                  !.command = ""], 414, "Request-URI Too Long")
        ELSE IF req.raw = "eof" THEN [h EXCEPT !.close_connection = TRUE]
        ELSE LET h1 == parse_request(h, req)
             IN  IF ~h1.ok THEN h1
                 ELSE IF h1.command = "GET" THEN do_GET(h1, req)
                 ELSE IF h1.command = "HEAD" THEN do_HEAD(h1, req)
                 ELSE send_error(h1, 501, "Unsupported method")

\* ---------------------------------------------------------------- __main__
VARIABLES
    pc,          \* where each process is: "start", "l31".."l34" (the banner
                 \* lines), "serving" (serve_forever waiting in select),
                 \* "handling" (inside process_request), "l39", "l40", "exited"
    listener,    \* the process whose socket the kernel has bound to PORT, 0 if none
    sockOpen,    \* httpd.socket is open
    stdout,      \* the lines each process has printed
    exitStatus,  \* Running, or the status the process ended with
    exc,         \* the exception that ended the process, "" when none did
    sigint,      \* SIGINT has been delivered to the process
    inflight,    \* the connections accepted and not yet finished
    resp,        \* the handler object of the latest connection, made anew at
                 \* every accept and gone with the process
    accepted,    \* connections accepted
    completed    \* connections whose handler ran to its end

vars == <<pc, listener, sockOpen, stdout, exitStatus, exc, sigint,
          inflight, resp, accepted, completed>>

Running == -1

\* status of a process Python ends on an uncaught exception
UncaughtStatus == 1
\* status of a process Python ends on an uncaught KeyboardInterrupt: it
\* restores the default SIGINT action and kills itself with the signal
SigintStatus == 130

BannerLine_no_hint(l) ==
    CASE l = "l31" -> << <<"Dev server running at http://localhost:", ToString(PORT)>> >>
      [] l = "l32" -> << <<"Serving from: ", "0.0.0.0", ToString(PORT)>> >>
      [] l = "l33" -> << <<"No-cache headers enabled - images/CSS will always reload fresh">> >>
      [] OTHER     -> << <<>> >>

BannerLine(l) ==
    CASE l = "l31" -> << <<"Dev server running at http://localhost:", ToString(PORT)>> >>
      [] l = "l32" -> << <<"Serving from: ", "0.0.0.0", ToString(PORT)>> >>
      [] l = "l33" -> << <<"No-cache headers enabled - images/CSS will always reload fresh">> >>
      [] OTHER     -> << <<"Press Ctrl+C to stop">>, <<>> >>

AfterLine(l) ==
    CASE l = "l31" -> "l32"
      [] l = "l32" -> "l33"
      [] l = "l33" -> "l34"
      [] OTHER     -> "serving"

BannerPcs == {"l31", "l32", "l33", "l34"}

\* print("\n\n... Server stopped")
StoppedLines == << <<>>, <<>>, <<"Server stopped">> >>

Init ==
    /\ pc = [i \in Instances |-> "start"]
    /\ listener = 0
    /\ sockOpen = [i \in Instances |-> FALSE]
    /\ stdout = [i \in Instances |-> <<>>]
    /\ exitStatus = [i \in Instances |-> Running]
    /\ exc = [i \in Instances |-> ""]
    /\ sigint = [i \in Instances |-> FALSE]
    /\ inflight = [i \in Instances |-> {}]
    /\ resp = [i \in Instances |-> NewHandler]
    /\ accepted = [i \in Instances |-> 0]
    /\ completed = [i \in Instances |-> 0]

\* TCPServer.server_bind: allow_reuse_address and allow_reuse_port are False,
\* so bind() succeeds only when no socket is bound to the port.
server_bind_reuse_port(owner) == TRUE

server_bind(owner) == owner = 0

\* The with statement's __exit__ calls server_close on every way out.
with_exit_leaves_open(open) == open

with_exit(open) == FALSE

\* The process ends: the with block closes the socket, the kernel frees the port.
Terminate(i, status, exception) ==
    /\ pc' = [pc EXCEPT ![i] = "exited"]
    /\ exitStatus' = [exitStatus EXCEPT ![i] = status]
    /\ exc' = [exc EXCEPT ![i] = exception]
    /\ sockOpen' = [sockOpen EXCEPT ![i] = with_exit(@)]
    /\ listener' = IF listener = i THEN 0 ELSE listener
    /\ inflight' = [inflight EXCEPT ![i] = {}]
    /\ resp' = [resp EXCEPT ![i] = NewHandler]

\* line 30: TCPServer(("", PORT), handler); a failed bind closes the socket
\* and raises OSError, which nothing catches.
Bind(i) ==
    /\ pc[i] = "start"
    /\ IF server_bind(listener)
       THEN /\ listener' = i
            /\ sockOpen' = [sockOpen EXCEPT ![i] = TRUE]
            /\ pc' = [pc EXCEPT ![i] = "l31"]
            /\ UNCHANGED <<exitStatus, exc, inflight, resp>>
       ELSE Terminate(i, UncaughtStatus, "OSError")
    /\ UNCHANGED <<stdout, sigint, accepted, completed>>

\* lines 31-34: the banner, one print call per step
Banner(i) ==
    /\ pc[i] \in BannerPcs
    /\ stdout' = [stdout EXCEPT ![i] = @ \o BannerLine(pc[i])]
    /\ pc' = [pc EXCEPT ![i] = AfterLine(pc[i])]
    /\ UNCHANGED <<listener, sockOpen, exitStatus, exc, sigint, inflight,
                   resp, accepted, completed>>

\* BaseServer.process_request runs finish_request before it returns: the
\* serve loop is inside the handler until the handler is done.
process_request_threaded == "serving"

process_request == "handling"

\* line 37, serve_forever: select reports the socket readable and
\* _handle_request_noblock accepts the connection.
Accept(i, req) ==
    /\ pc[i] = "serving"
    /\ accepted[i] < MaxRequests
    /\ inflight' = [inflight EXCEPT ![i] = @ \cup {req}]
    /\ accepted' = [accepted EXCEPT ![i] = @ + 1]
    /\ resp' = [resp EXCEPT ![i] = NewHandler]
    /\ pc' = [pc EXCEPT ![i] = process_request]
    /\ UNCHANGED <<listener, sockOpen, stdout, exitStatus, exc, sigint, completed>>

\* The handler runs to its end (StreamRequestHandler.handle and finish), the
\* server shuts the connection down and goes back to select.
Handle(i) ==
    /\ pc[i] \in {"serving", "handling"}
    /\ \E req \in inflight[i] :
          /\ resp' = [resp EXCEPT ![i] = handle_one_request(req)]
          /\ inflight' = [inflight EXCEPT ![i] = @ \ {req}]
    /\ completed' = [completed EXCEPT ![i] = @ + 1]
    /\ pc' = [pc EXCEPT ![i] = "serving"]
    /\ UNCHANGED <<listener, sockOpen, stdout, exitStatus, exc, sigint, accepted>>

\* The handler raises an Exception (the client reset the connection):
\* _handle_request_noblock calls handle_error and shutdown_request and the
\* loop goes on.
HandleError(i) ==
    /\ pc[i] \in {"serving", "handling"}
    /\ \E req \in inflight[i] :
          inflight' = [inflight EXCEPT ![i] = @ \ {req}]
    /\ resp' = [resp EXCEPT ![i] = NewHandler]
    /\ pc' = [pc EXCEPT ![i] = "serving"]
    /\ UNCHANGED <<listener, sockOpen, stdout, exitStatus, exc, sigint,
                   accepted, completed>>

\* SIGINT raises KeyboardInterrupt in the main thread.  Lines 31-34 are
\* outside the try: there it is uncaught.  Inside serve_forever (also inside
\* a handler: KeyboardInterrupt is no Exception, _handle_request_noblock
\* re-raises it) the except clause of line 38 catches it.
SigInt(i) ==
    /\ ~sigint[i]
    /\ pc[i] \in BannerPcs \cup {"serving", "handling"}
    /\ sigint' = [sigint EXCEPT ![i] = TRUE]
    /\ IF pc[i] \in BannerPcs
       THEN Terminate(i, SigintStatus, "KeyboardInterrupt")
       ELSE /\ pc' = [pc EXCEPT ![i] = "l39"]
            /\ inflight' = [inflight EXCEPT ![i] = {}]
            /\ UNCHANGED <<listener, sockOpen, exitStatus, exc, resp>>
    /\ UNCHANGED <<stdout, accepted, completed>>

\* line 39
Stopped(i) ==
    /\ pc[i] = "l39"
    /\ stdout' = [stdout EXCEPT ![i] = @ \o StoppedLines]
    /\ pc' = [pc EXCEPT ![i] = "l40"]
    /\ UNCHANGED <<listener, sockOpen, exitStatus, exc, sigint, inflight,
                   resp, accepted, completed>>

\* line 40: sys.exit(0) raises SystemExit through the with block
SysExit(i) ==
    /\ pc[i] = "l40"
    /\ Terminate(i, 0, "SystemExit")
    /\ UNCHANGED <<stdout, sigint, accepted, completed>>

\* Any other exception leaves serve_forever (select fails, handle_error
\* itself raises): line 38 does not catch it.
ServeRaises(i) ==
    /\ pc[i] \in {"serving", "handling"}
    /\ Terminate(i, UncaughtStatus, "Exception")
    /\ UNCHANGED <<stdout, sigint, accepted, completed>>

Next ==
    \E i \in Instances :
        \/ Bind(i)
        \/ Banner(i)
        \/ \E req \in Requests : Accept(i, req)
        \/ Handle(i)
        \/ HandleError(i)
        \/ SigInt(i)
        \/ Stopped(i)
        \/ SysExit(i)
        \/ ServeRaises(i)

Spec == Init /\ [][Next]_vars

\* ======================================================== the properties
\* What a client and the log's reader can observe of a handler.
Responded(h) == h.wfile # <<>>

\* The step in which the handler of connection req runs to its end.
Handles(i, req) ==
    /\ req \in inflight[i]
    /\ req \notin inflight'[i]
    /\ completed'[i] = completed[i] + 1

\* The connection delivers a request line that is not blank.
HasRequestLine(req) == req.raw = "toolong" \/ (req.raw = "line" /\ req.words # <<>>)

ItemsOf(h) == {h.wfile[n] : n \in 1..Len(h.wfile)}

HeadersSent(h) == {x \in ItemsOf(h) : x.t = "header"}

NoCacheItems ==
    << HeaderItem("Cache-Control", "no-store, no-cache, must-revalidate, max-age=0"),
       HeaderItem("Pragma", "no-cache"),
       HeaderItem("Expires", "0") >>

NoCacheKeys == {"Cache-Control", "Pragma", "Expires"}

\* The status on the wire: "" when the response has no status line.
StatusSent(h) ==
    IF \E x \in ItemsOf(h) : x.t = "status"
    THEN (CHOOSE x \in ItemsOf(h) : x.t = "status").v
    ELSE ""

\* A response sent while request_version is HTTP/0.9 has no header block.
HeaderlessVersion(h) == h.request_version = "HTTP/0.9"

\* ---- C1
\* C1 (as claimed): every response the server produces carries the three
\* no-cache headers with exactly the specified values.
C1_EveryResponseHasNoCacheHeaders ==
    \A i \in Instances :
        Responded(resp[i]) =>
            \A n \in 1..3 : NoCacheItems[n] \in HeadersSent(resp[i])

\* C1 (amended): every response sent while the handler's request_version is
\* not HTTP/0.9 carries the three no-cache headers with exactly the specified
\* values and no other value under those names; a response sent while it is
\* HTTP/0.9 has no status line and no header at all.
C1_NoCacheHeadersUnlessHTTP09 ==
    \A i \in Instances :
        Responded(resp[i]) =>
            IF HeaderlessVersion(resp[i])
            THEN HeadersSent(resp[i]) = {} /\ StatusSent(resp[i]) = ""
            ELSE /\ \A n \in 1..3 : NoCacheItems[n] \in HeadersSent(resp[i])
                 /\ \A x \in HeadersSent(resp[i]) :
                        x.k \in NoCacheKeys => \E n \in 1..3 : x = NoCacheItems[n]

\* C1 witness: an error response to an HTTP/1.1 request carrying the headers.
C1_Witness ==
    \E i \in Instances :
        /\ StatusSent(resp[i]) = "404"
        /\ resp[i].request_version = "HTTP/1.1"
        /\ \A n \in 1..3 : NoCacheItems[n] \in HeadersSent(resp[i])

\* ---- C10
IndexOfEnd(h) == CHOOSE n \in 1..Len(h.wfile) : h.wfile[n].t = "end"

\* The header block is: status line, the standard handler's headers, then
\* Cache-Control, Pragma, Expires, then the terminating blank line; only the
\* body follows.
WellPlaced(h) ==
    /\ Cardinality({n \in 1..Len(h.wfile) : h.wfile[n].t = "end"}) = 1
    /\ LET e == IndexOfEnd(h)
       IN  /\ e >= 5
           /\ h.wfile[1].t = "status"
           /\ <<h.wfile[e - 3], h.wfile[e - 2], h.wfile[e - 1]>> = NoCacheItems
           /\ \A n \in 2..(e - 4) :
                  h.wfile[n].t = "header" /\ h.wfile[n].k \notin NoCacheKeys
           /\ \A n \in (e + 1)..Len(h.wfile) : h.wfile[n].t = "body"
    /\ h.headers_buffer = <<>>

\* C10 (as claimed): in each response the three no-cache headers are appended
\* exactly once each, in the order Cache-Control, Pragma, Expires, after the
\* standard handler's headers and before the header block is terminated.
C10_EveryResponseOrdered ==
    \A i \in Instances : Responded(resp[i]) => WellPlaced(resp[i])

\* C10 (amended): in each response that has a header block (request_version not
\* HTTP/0.9) the three no-cache headers are appended exactly once each, in the
\* order Cache-Control, Pragma, Expires, after the standard handler's headers
\* and immediately before the blank line; in no response is a no-cache header
\* duplicated, left in the buffer or placed after the end of the headers.
C10_OrderedWhenHeaderBlock ==
    \A i \in Instances :
        Responded(resp[i]) =>
            IF HeaderlessVersion(resp[i])
            THEN \A n \in 1..Len(resp[i].wfile) : resp[i].wfile[n].t = "body"
            ELSE WellPlaced(resp[i])

\* C10 witness: a 200 whose standard headers precede the three and whose body
\* follows the blank line.
C10_Witness ==
    \E i \in Instances :
        /\ StatusSent(resp[i]) = "200"
        /\ WellPlaced(resp[i])
        /\ IndexOfEnd(resp[i]) = 9
        /\ Len(resp[i].wfile) = 10

\* ---- C2
LogPrefix == <<address_string, "-", "-", "[", log_date_time_string, "]">>

HasLogPrefix(line) ==
    Len(line) > Len(LogPrefix) /\ SubSeq(line, 1, Len(LogPrefix)) = LogPrefix

\* <address> - - [<date-time>] "<request line>" <status> -
IsRequestLine(line, h) ==
    /\ HasLogPrefix(line)
    /\ Len(line) = Len(LogPrefix) + Len(h.requestline) + 4
    /\ SubSeq(line, Len(LogPrefix) + 1, Len(line) - 2)
           = <<"\"">> \o h.requestline \o <<"\"">>
    /\ line[Len(line)] = "-"

\* The status in the last log line of the request, "" when nothing was logged.
LoggedStatus(h) ==
    IF h.stderr = <<>> THEN ""
    ELSE h.stderr[Len(h.stderr)][Len(h.stderr[Len(h.stderr)]) - 1]

ErrorStatuses == {"400", "404", "414", "431", "501", "505"}

\* C2 (as claimed): each handled request, success or error, produces exactly
\* one log line, of the request-line form.
C2_ExactlyOneLogLine ==
    \A i \in Instances :
        Responded(resp[i]) =>
            /\ Len(resp[i].stderr) = 1
            /\ IsRequestLine(resp[i].stderr[1], resp[i])

\* C2 (amended): each connection that delivers a non-blank request line
\* produces exactly one log line of the form
\* <address> - - [<date-time>] "<request line>" <status> -, and it is the last
\* one written for the request; a success, redirect or not-modified response
\* produces only that line, an error response (send_error) produces one more
\* line before it, <address> - - [<date-time>] code <status>, message <text>.
\* A connection that delivers no request line, or a blank one, produces no
\* log line.
C2_OneRequestLinePlusErrorLine ==
    [][\A i \in Instances : \A req \in inflight[i] :
          Handles(i, req) =>
              LET h == resp'[i]
                  n == Len(h.stderr)
              IN  IF ~HasRequestLine(req) THEN n = 0
                  ELSE /\ n \in {1, 2}
                       /\ IsRequestLine(h.stderr[n], h)
                       /\ StatusSent(h) # "" => StatusSent(h) = LoggedStatus(h)
                       /\ (n = 2) <=> (LoggedStatus(h) \in ErrorStatuses)
                       /\ n = 2 =>
                              /\ HasLogPrefix(h.stderr[1])
                              /\ Len(h.stderr[1]) = Len(LogPrefix) + 4
                              /\ SubSeq(h.stderr[1], Len(LogPrefix) + 1,
                                        Len(LogPrefix) + 3)
                                     = <<"code", LoggedStatus(h), "message">>]_vars

\* C2 witness: an error response with its two lines.
C2_Witness ==
    \E i \in Instances :
        /\ Responded(resp[i])
        /\ Len(resp[i].stderr) = 2
        /\ LoggedStatus(resp[i]) = "404"
        /\ Len(resp[i].requestline) = 3

\* ---- C3
\* C3: a SIGINT delivered to a process at any point after its socket is bound
\* (in the banner, idle in the loop, inside a handler) makes it print the
\* shutdown confirmation and exit with status 0.
C3_SigintStopsCleanly ==
    \A i \in Instances :
        (sigint[i] /\ pc[i] = "exited") =>
            /\ exitStatus[i] = 0
            /\ Len(stdout[i]) >= 1
            /\ stdout[i][Len(stdout[i])] = <<"Server stopped">>

\* ---- C4
\* C4: a process started while another holds the port fails at bind: it ends
\* with a non-zero status, has printed no banner line and accepted no
\* connection, and the step in which it fails leaves the holder as it was,
\* still bound to the port.
C4_SecondInstanceFailsAtBind ==
    /\ [](\A i \in Instances :
             exc[i] = "OSError" =>
                 /\ pc[i] = "exited"
                 /\ exitStatus[i] # 0 /\ exitStatus[i] # Running
                 /\ stdout[i] = <<>>
                 /\ accepted[i] = 0 /\ completed[i] = 0
                 /\ ~sockOpen[i] /\ listener # i)
    /\ [][\A i \in Instances :
             (pc[i] = "start" /\ listener # 0 /\ pc'[i] # "start") =>
                 /\ pc'[i] = "exited"
                 /\ exc'[i] = "OSError"
                 /\ listener' = listener
                 /\ \A j \in Instances \ {i} :
                        /\ pc'[j] = pc[j]
                        /\ sockOpen'[j] = sockOpen[j]
                        /\ inflight'[j] = inflight[j]
                        /\ exitStatus'[j] = exitStatus[j]]_vars

\* C4 witness: the second process has failed at bind and the first one has
\* since finished a request and is waiting for the next.
C4_Witness ==
    \E i, j \in Instances :
        /\ exc[i] = "OSError" /\ exitStatus[i] = 1
        /\ listener = j /\ pc[j] = "serving" /\ completed[j] >= 1

\* ---- C5
\* A request line of two or three words with a version the server speaks,
\* followed by a header block that parses.
WellFormed(req) ==
    /\ req.raw = "line" /\ req.hdr = "ok"
    /\ Len(req.words) \in {2, 3}
    /\ Len(req.words) = 2 => req.words[1] = "GET"
    /\ Len(req.words) = 3 => req.words[3] \in {"HTTP/0.9", "HTTP/1.0", "HTTP/1.1"}

HasStatusLine(req) ==
    Len(req.words) = 3 /\ req.words[3] \in {"HTTP/1.0", "HTTP/1.1"}

\* A well-formed GET or HEAD for a target that does not exist, or that exists
\* and cannot be read.
FailingRequest(req) ==
    /\ WellFormed(req)
    /\ req.words[1] \in {"GET", "HEAD"}
    /\ req.words[2] \in {"/nope.png", "/secret"}

\* C5: a request that fails (file not found, file not readable) is answered
\* with an HTTP error status - 404 on the status line when the response has
\* one, in the error page and in the log always - and the process goes on: it
\* is back in the serve loop with its socket bound, ready for the next request.
C5_RequestFailureIsNotProcessFailure ==
    [][\A i \in Instances : \A req \in inflight[i] :
          Handles(i, req) =>
              /\ pc'[i] = "serving"
              /\ exitStatus'[i] = Running
              /\ sockOpen'[i] /\ listener' = i
              /\ FailingRequest(req) =>
                     /\ LoggedStatus(resp'[i]) = "404"
                     /\ ~HeaderlessVersion(resp'[i]) => StatusSent(resp'[i]) = "404"
                     /\ req.words[1] = "GET" => resp'[i].body = ErrorBody(404)]_vars

\* C5 witness: a permission failure was answered 404 and the server is back
\* in the loop, able to accept again.
C5_Witness ==
    \E i \in Instances :
        /\ pc[i] = "serving" /\ accepted[i] < MaxRequests
        /\ resp[i].requestline = <<"GET", "/secret", "HTTP/1.1">>
        /\ StatusSent(resp[i]) = "404"

\* ---- C6
ExistingFileTargets == {"/a.html", "/a.html?v=2", "/secret"}
ReadableFileTargets == {"/a.html", "/a.html?v=2"}
MissingTargets == {"/nope.png"}

\* The file a target names.
FileOf(target) == IF target = "/secret" THEN "/secret" ELSE "/a.html"

\* C6 (as claimed): the status is determined by how the path resolves: every
\* request for a path that resolves to an existing file is answered 200 with
\* the file's bytes as body, every request for a path that resolves to
\* nothing is answered 404.  The status is read from the server's own log
\* line, so that a response without a status line counts too.
C6_StatusFollowsPath ==
    [][\A i \in Instances : \A req \in inflight[i] :
          (Handles(i, req) /\ req.raw = "line" /\ Len(req.words) >= 2) =>
              /\ req.words[2] \in ExistingFileTargets =>
                     /\ LoggedStatus(resp'[i]) = "200"
                     /\ resp'[i].body = FileBytes[FileOf(req.words[2])]
              /\ req.words[2] \in MissingTargets =>
                     LoggedStatus(resp'[i]) = "404"]_vars

\* C6 (amended): every well-formed GET request, without an If-Modified-Since
\* that the file's modification time satisfies, for a path that resolves to an
\* existing readable file is answered with status 200 and a body equal to the
\* file's bytes; every well-formed GET or HEAD request for a path that
\* resolves to nothing is answered with status 404.  The status is on the
\* status line when the request names HTTP/1.0 or HTTP/1.1 (an HTTP/0.9
\* response has none) and in the log line always.
C6_GetOfReadableFileIs200 ==
    [][\A i \in Instances : \A req \in inflight[i] :
          (Handles(i, req) /\ WellFormed(req)) =>
              /\ (/\ req.words[1] = "GET"
                  /\ req.ims # "notmodified"
                  /\ req.words[2] \in ReadableFileTargets) =>
                     /\ LoggedStatus(resp'[i]) = "200"
                     /\ HasStatusLine(req) => StatusSent(resp'[i]) = "200"
                     /\ resp'[i].body = FileBytes[FileOf(req.words[2])]
              /\ (/\ req.words[1] \in {"GET", "HEAD"}
                  /\ req.words[2] \in MissingTargets) =>
                     /\ LoggedStatus(resp'[i]) = "404"
                     /\ HasStatusLine(req) => StatusSent(resp'[i]) = "404"]_vars

\* C6 witness: a GET of the file through a query string, answered 200 with
\* the file's two bytes.
C6_Witness ==
    \E i \in Instances :
        /\ resp[i].requestline = <<"GET", "/a.html?v=2", "HTTP/1.0">>
        /\ StatusSent(resp[i]) = "200"
        /\ resp[i].body = <<65, 66>>

\* ---- C7
FullOutput ==
    << <<"Dev server running at http://localhost:", "8080">>,
       <<"Serving from: ", "0.0.0.0", "8080">>,
       <<"No-cache headers enabled - images/CSS will always reload fresh">>,
       <<"Press Ctrl+C to stop">>,
       <<>>,
       <<>>,
       <<>>,
       <<"Server stopped">> >>

IsPrefix(a, b) == Len(a) <= Len(b) /\ SubSeq(b, 1, Len(a)) = a

\* C7 (as claimed), on the runs the except clause of line 38 ends (status 0):
\* standard output holds exactly the three banner lines (URL, serving
\* directory, feature notice) followed by the one shutdown confirmation line.
C7_ThreeBannerLinesThenStopped ==
    \A i \in Instances :
        (sigint[i] /\ pc[i] = "exited" /\ exitStatus[i] = 0) =>
            stdout[i] = <<FullOutput[1], FullOutput[2], FullOutput[3], FullOutput[8]>>

\* C7 (amended): standard output of a process is at every moment a prefix of
\* four banner lines (URL, server address, feature notice, "Press Ctrl+C to
\* stop"), a blank line, two more blank lines and the one shutdown
\* confirmation line.  Nothing is printed before the bind has succeeded, the
\* four banner lines and the blank line are all printed before the first
\* connection is accepted, the confirmation is printed only after a SIGINT,
\* and a process that has exited with status 0 has printed all of it.
C7_FourBannerLinesThenStopped ==
    \A i \in Instances :
        /\ IsPrefix(stdout[i], FullOutput)
        /\ Len(stdout[i]) \in {0, 1, 2, 3, 5, 8}
        /\ stdout[i] # <<>> => exc[i] # "OSError" /\ pc[i] # "start"
        /\ (accepted[i] > 0 \/ pc[i] = "serving") => Len(stdout[i]) >= 5
        /\ Len(stdout[i]) > 5 => sigint[i]
        /\ (pc[i] = "exited" /\ exitStatus[i] = 0) => stdout[i] = FullOutput

\* C7 witness: a process that served a request, was interrupted and exited 0
\* with the complete output.
C7_Witness ==
    \E i \in Instances :
        /\ pc[i] = "exited" /\ exitStatus[i] = 0 /\ sigint[i]
        /\ completed[i] >= 1
        /\ stdout[i] = FullOutput

\* ---- C8
\* C8: connections are handled strictly one after the other: at most one is
\* being handled at any time, and while one is, the loop is inside its
\* handler and not back at accept.
C8_OneRequestAtATime ==
    \A i \in Instances :
        /\ Cardinality(inflight[i]) <= 1
        /\ inflight[i] # {} <=> pc[i] = "handling"
        /\ accepted[i] - completed[i] >= Cardinality(inflight[i])

\* C8 witness: the second connection is being handled after the first one was
\* completed.
C8_Witness ==
    \E i \in Instances :
        pc[i] = "handling" /\ accepted[i] = 2 /\ completed[i] = 1

\* ---- C9
\* C9: only the process bound to the port holds the listening socket; it is
\* open from the bind to the end of the process, and closed once the process
\* has exited, whichever way it left (SystemExit after the interrupt, an
\* uncaught KeyboardInterrupt, any other exception out of the serve loop).
C9_SocketReleasedOnEveryExit ==
    /\ \A i \in Instances :
          /\ pc[i] = "exited" => ~sockOpen[i] /\ listener # i
          /\ pc[i] \notin {"start", "exited"} => sockOpen[i] /\ listener = i
          /\ pc[i] = "start" => ~sockOpen[i]
    /\ Cardinality({i \in Instances : sockOpen[i]}) <= 1

\* C9 witness: one process left by the interrupt path, the other by an
\* exception out of the serve loop, both with the socket closed.
C9_Witness ==
    \E i, j \in Instances :
        /\ pc[i] = "exited" /\ exc[i] = "SystemExit" /\ ~sockOpen[i]
        /\ pc[j] = "exited" /\ exc[j] = "Exception" /\ ~sockOpen[j]

=============================================================================
